---------------------------- MODULE Spec2Model ----------------------------
(***************************************************************************)
(* A model of scripts/export-to-csv.py (daydiff): the retry loop of        *)
(* api_request, the response shape adapter (extract_rows,                  *)
(* extract_pagination), the paginated fetcher (fetch_platform_dataset),    *)
(* the partitioned fetcher (fetch_vulnerability_dataset), the dataset      *)
(* registry (build_datasets, apply_cli_filters) and the run loop of main.  *)
(*                                                                         *)
(* Each layer has its own specification over the shared variables:         *)
(*   SpecApi      one api_request call, one action per attempt             *)
(*   SpecAdapter  extract_rows / extract_pagination on one response body   *)
(*   SpecPlatform one fetch_platform_dataset call, one action per request  *)
(*   SpecVuln     one fetch_vulnerability_dataset call, one action per pass*)
(*   Spec         main: registry, selection and the run loop               *)
(* A layer takes the results of the layer below as its input: a fetcher    *)
(* draws each api_request result (a parsed body, or a raised error) from   *)
(* what api_request can produce, main draws each fetch result (rows, or a  *)
(* raised error) from what the fetchers can produce.                       *)
(***************************************************************************)
EXTENDS Integers, Sequences, FiniteSets, TLC

VARIABLES
    \* ---- api_request (lines 118-145)
    api_pc,        \* "idle" | "try" | "returned" | "raised"
    attempt,       \* the loop variable of `for attempt in range(5)`
    last_err,      \* last_err
    sleeps,        \* every time.sleep(delay) so far, in milliseconds, in order
    api_result,    \* the body returned or the error raised
    outcomes,      \* what urlopen/json.loads did on each attempt so far, in order
    \* ---- the response shape adapter (lines 148-166)
    ad_body,       \* the response body handed to the adapter
    ad_rows,       \* what extract_rows(body) did: not called yet, rows, or raised
    ad_pag,        \* what extract_pagination(body) did: not called yet, None, a dict, or raised
    \* ---- fetch_platform_dataset (lines 169-209)
    pf_pc,         \* "idle" | "first" | "loop" | "returned" | "raised"
    all_rows,      \* all_rows
    pag,           \* pag, the pagination of the first response
    rows1,         \* len(rows) of the first response
    total,         \* total
    page_size,     \* page_size
    stride,        \* stride
    current_offset,\* current_offset
    iteration,     \* iteration
    pf_exc,        \* the exception fetch_platform_dataset raised, if it did
    requests,      \* the offset of every api_request call so far (None: the first, without offset)
    response,      \* history: what the latest api_request call gave, a body or a failure
    server,        \* the API server: what it reports, and whether its data is static
    \* ---- fetch_vulnerability_dataset (lines 212-226)
    vu_pc,         \* "idle" | "pass" | "returned" | "raised"
    merged,        \* merged: the dict's values, in the dict's (insertion) order
    severity,      \* the place in VULN_SEVERITIES of `severity`
    pass_num,      \* pass_num
    vu_result,     \* list(merged.values()) once returned
    vu_exc,        \* the exception fetch_vulnerability_dataset raised, if it did
    last_seen,     \* history: for each id, the latest row received that carried it
    overwritten,   \* history: some response carried an id with another row than an earlier response
    vu_count,      \* history: the number of api_request calls so far
    vu_last,       \* history: what the latest api_request call gave, and the error if it raised
    \* ---- main (lines 300-365)
    pc,            \* "idle" | "start" | "built" | "run" | "done" | "exited" | "crashed"
    datasets,      \* datasets: the list build_datasets returns, as apply_cli_filters left it
    built,         \* history: datasets as build_datasets returned it
    args_datasets, \* args.datasets (--datasets), a string
    args_exclude,  \* args.exclude (--exclude), a string
    run_list,      \* platform_ds followed by vuln_ds (lines 342-343)
    next_ds,       \* the place in run_list of the dataset the loops fetch next
    attempted,     \* history: the names of the datasets whose fetch was called
    failed,        \* history: the names of the datasets whose fetch raised
    exit_status    \* the exit status of the process, None while it runs

apiVars == <<api_pc, attempt, last_err, sleeps, api_result, outcomes>>

adVars == <<ad_body, ad_rows, ad_pag>>

pfVars ==
    <<pf_pc, all_rows, pag, rows1, total, page_size, stride, current_offset, iteration,
      pf_exc, requests, response, server>>

vuVars ==
    <<vu_pc, merged, severity, pass_num, vu_result, vu_exc, last_seen, overwritten,
      vu_count, vu_last>>

mainVars ==
    <<pc, datasets, built, args_datasets, args_exclude, run_list, next_ds, attempted,
      failed, exit_status>>

vars == <<apiVars, adVars, pfVars, vuVars, mainVars>>

\* What the steps of one layer leave alone: the variables of the other layers.
ApiFrame == UNCHANGED <<adVars, pfVars, vuVars, mainVars>>

AdapterFrame == UNCHANGED <<apiVars, pfVars, vuVars, mainVars>>

PfFrame == UNCHANGED <<apiVars, adVars, vuVars, mainVars>>

VuFrame == UNCHANGED <<apiVars, adVars, pfVars, mainVars>>

MainFrame == UNCHANGED <<apiVars, adVars, pfVars, vuVars>>

(***************************************************************************)
(* The response shape adapter: extract_rows, extract_pagination            *)
(***************************************************************************)

\* Python's None where a number may stand.
None == 0 - 1

\* Python truthiness of a number or None.
Truthy(v) == v # None /\ v # 0

\* Python's `a or b` on numbers and None.
Or(a, b) == IF Truthy(a) THEN a ELSE b

\* A JSON object under the key "pagination" or "meta". present = FALSE: the key is
\* missing or null. A key the object lacks reads None (dict.get); other = TRUE: the
\* object has some key extract_pagination does not read.
NoObj ==
    [present |-> FALSE, other |-> FALSE, total |-> None, totalCount |-> None,
     count |-> None, limit |-> None, pageSize |-> None, per_page |-> None,
     offset |-> None]

PagKeys(o) == {o.total, o.totalCount, o.count, o.limit, o.pageSize, o.per_page, o.offset}

\* Python truthiness of the value of body.get("pagination"): None and {} are falsy.
ObjTruthy(o) == o.present /\ (o.other \/ PagKeys(o) # {None})

\* A response body. kind = "list": a bare JSON list, rows its items. kind = "object":
\* a JSON object; data = "list": its "data" is a list, rows its items; data =
\* "absent" / "other": it has no "data", or one that is no list. kind = "null": null.
ListBody(rows) ==
    [kind |-> "list", rows |-> rows, data |-> "absent", pagination |-> NoObj, meta |-> NoObj]

ObjectBody(data, rows, pagination, meta) ==
    [kind |-> "object", rows |-> rows, data |-> data, pagination |-> pagination, meta |-> meta]

NullBody ==
    [kind |-> "null", rows |-> <<>>, data |-> "absent", pagination |-> NoObj, meta |-> NoObj]

\* Python truthiness of the body: None, [] and {} are falsy.
BodyTruthy(body) ==
    CASE body.kind = "list" -> body.rows # <<>>
      [] body.kind = "object" ->
            body.data # "absent" \/ body.pagination.present \/ body.meta.present
      [] OTHER -> FALSE

\* What a call did: returned value v, or raised.
Returned(v) == [raised |-> "no", value |-> v]

Raised(exc) == [raised |-> exc, value |-> <<>>]

NotCalled == [raised |-> "not called", value |-> <<>>]

\* extract_rows, lines 148-154
extract_rows(body) ==
    IF body.kind = "list"
      THEN Returned(body.rows)
      ELSE IF BodyTruthy(body) /\ body.data = "list"
             THEN Returned(body.rows)
             ELSE Raised("ValueError")

\* The dict extract_pagination builds, lines 162-166
PagDict(obj) ==
    [none |-> FALSE,
     total |-> Or(obj.total, Or(obj.totalCount, Or(obj.count, 0))),
     pageSize |-> Or(obj.limit, Or(obj.pageSize, Or(obj.per_page, 0))),
     offset |-> obj.offset]

\* The None extract_pagination returns at line 161
NonePag == [none |-> TRUE, total |-> 0, pageSize |-> 0, offset |-> None]

\* extract_pagination, lines 157-166. `(body or {})` is the body itself when it is
\* truthy, and a non-empty list has no .get: AttributeError.
extract_pagination(body) ==
    IF BodyTruthy(body) /\ body.kind = "list"
      THEN Raised("AttributeError")
      ELSE IF body.kind # "object"
             THEN Returned(NonePag)
             ELSE LET obj == IF ObjTruthy(body.pagination)
                               THEN body.pagination ELSE body.meta
                  IN  IF ~ObjTruthy(obj)
                        THEN Returned(NonePag)
                        ELSE Returned(PagDict(obj))

\* ---- bounds of the adapter's inputs
\* rows of a body handed to the adapter: 0..MaxAdapterRows of them
MaxAdapterRows == 2

AdapterRowSeqs == {[i \in 1..n |-> i] : n \in 0..MaxAdapterRows}

\* Pagination objects: missing, {}, and every choice of the six aliases.
AdapterObjs ==
    {NoObj, [NoObj EXCEPT !.present = TRUE], [NoObj EXCEPT !.present = TRUE, !.other = TRUE]}
    \cup {[present |-> TRUE, other |-> FALSE, total |-> t, totalCount |-> tc, count |-> c,
           limit |-> l, pageSize |-> ps, per_page |-> pp, offset |-> None] :
             t \in {None, 0, 11}, tc \in {None, 12}, c \in {None, 13},
             l \in {None, 0, 21}, ps \in {None, 22}, pp \in {None, 23}}

\* The objects tried under "meta" beside every object under "pagination".
AdapterMetas ==
    {NoObj,
     [NoObj EXCEPT !.present = TRUE],
     [NoObj EXCEPT !.present = TRUE, !.totalCount = 32, !.per_page = 33]}

AdapterBodies ==
    {ListBody(r) : r \in AdapterRowSeqs}
    \cup {NullBody}
    \cup {ObjectBody("absent", <<>>, p, m) : p \in AdapterObjs, m \in AdapterMetas}
    \cup {ObjectBody("other", <<>>, p, m) : p \in {NoObj}, m \in AdapterMetas}
    \cup {ObjectBody("list", r, p, m) :
            r \in AdapterRowSeqs, p \in AdapterObjs, m \in AdapterMetas}

AdapterIdle ==
    /\ ad_body = NullBody
    /\ ad_rows = NotCalled
    /\ ad_pag = NotCalled

\* rows = extract_rows(body)
ExtractRows ==
    /\ AdapterFrame
    /\ ad_rows = NotCalled
    /\ ad_rows' = extract_rows(ad_body)
    /\ UNCHANGED <<ad_body, ad_pag>>

\* pag = extract_pagination(body)
ExtractPagination ==
    /\ AdapterFrame
    /\ ad_pag = NotCalled
    /\ ad_pag' = extract_pagination(ad_body)
    /\ UNCHANGED <<ad_body, ad_rows>>

(***************************************************************************)
(* api_request: the retry loop                                             *)
(***************************************************************************)

\* `for attempt in range(5)`
MaxAttempts == 5

\* `delay = 500 * (2 ** attempt) / 1000`: the 500 (milliseconds)
BaseDelayMs == 500

\* `e.code in (429, 500, 502, 503, 504)`
RetryableCodes == {429, 500, 502, 503, 504}

\* Statuses urlopen can raise as HTTPError that the tuple above does not hold.
OtherCodes == {400, 401, 404}

\* Stand-ins for the parsed JSON a successful attempt returns.
ApiBodies == {"body1", "body2"}

NoErr == [kind |-> "None", code |-> 0, body |-> "none"]

HTTPError(c) == [kind |-> "HTTPError", code |-> c, body |-> "none"]

\* A URLError / OSError whose text holds neither "ssl" nor "certificate"
ConnError == [kind |-> "URLError", code |-> 0, body |-> "none"]

\* A URLError / OSError whose text holds "ssl" or "certificate"
SslError == [kind |-> "SSLError", code |-> 0, body |-> "none"]

\* json.loads raising on a 2xx response whose text is no JSON (a ValueError)
JsonError == [kind |-> "JSONDecodeError", code |-> 0, body |-> "none"]

Ok(b) == [kind |-> "ok", code |-> 0, body |-> b]

DelayLinear(k) == BaseDelayMs * (k + 1)

\* `delay = 500 * (2 ** attempt) / 1000`, kept in milliseconds
Delay(k) == BaseDelayMs * (2 ^ k)

IsRetryableAll(c) == c \in RetryableCodes \cup {404}

\* `if e.code in (429, 500, 502, 503, 504)`
IsRetryable(c) == c \in RetryableCodes

IsTlsFailureNever(e) == FALSE

\* lines 133-134: `"ssl" in err_str or "certificate" in err_str`
IsTlsFailure(e) == e.kind = "SSLError"

KeepFirstErr(old, e) == IF old = NoErr THEN e ELSE old

\* `last_err = e`
RecordErr(old, e) == e

\* The state at the call of api_request, before the first attempt.
ApiStart ==
    /\ api_pc = "try"
    /\ attempt = 0
    /\ last_err = NoErr
    /\ sleeps = <<>>
    /\ api_result = NoErr
    /\ outcomes = <<>>

\* After a retryable failure: sleep, then the next attempt, or `raise last_err`
\* once range(5) is used up (line 145).
ApiBackoff(e) ==
    /\ last_err' = RecordErr(last_err, e)
    /\ sleeps' = Append(sleeps, Delay(attempt))
    /\ attempt' = attempt + 1
    /\ outcomes' = Append(outcomes, e)
    /\ IF attempt + 1 < MaxAttempts
         THEN /\ api_pc' = "try"
              /\ UNCHANGED api_result
         ELSE /\ api_pc' = "raised"
              /\ api_result' = RecordErr(last_err, e)

\* An exception that leaves the loop at once (`raise`, or one no handler takes).
ApiRaise(e, recorded) ==
    /\ last_err' = IF recorded THEN RecordErr(last_err, e) ELSE last_err
    /\ outcomes' = Append(outcomes, e)
    /\ api_pc' = "raised"
    /\ api_result' = e
    /\ UNCHANGED <<attempt, sleeps>>

\* lines 121-122: urlopen succeeded and the body parsed
ApiSuccess ==
    /\ ApiFrame
    /\ api_pc = "try"
    /\ \E b \in ApiBodies :
        /\ api_result' = Ok(b)
        /\ outcomes' = Append(outcomes, Ok(b))
    /\ api_pc' = "returned"
    /\ UNCHANGED <<attempt, last_err, sleeps>>

\* lines 123-130: except HTTPError
ApiHttpError ==
    /\ ApiFrame
    /\ api_pc = "try"
    /\ \E c \in RetryableCodes \cup OtherCodes :
        IF IsRetryable(c)
          THEN ApiBackoff(HTTPError(c))
          ELSE ApiRaise(HTTPError(c), TRUE)

\* lines 131-144: except (URLError, OSError)
ApiUrlError ==
    /\ ApiFrame
    /\ api_pc = "try"
    /\ \E e \in {SslError, ConnError} :
        IF IsTlsFailure(e)
          THEN ApiRaise(e, TRUE)
          ELSE ApiBackoff(e)

\* line 122: json.loads raises ValueError, which no handler of the loop takes
ApiJsonError ==
    /\ ApiFrame
    /\ api_pc = "try"
    /\ ApiRaise(JsonError, FALSE)

(***************************************************************************)
(* fetch_platform_dataset: the paginated fetcher                           *)
(***************************************************************************)

\* MAX_ITERATIONS, line 34
MAX_ITERATIONS == 2000

\* `page_size = pag["pageSize"] or 200`, line 183
DefaultPageSize == 200

Min(a, b) == IF a <= b THEN a ELSE b

Max(a, b) == IF a >= b THEN a ELSE b

\* ---- bounds of the server
\* the static server reports a total in 0..MaxTotal, or BigTotal
MaxTotal == 10

\* a total large enough for the iteration cap to end the loop
BigTotal == 2001

\* the server reports a page size in 0..MaxPage
MaxPage == 5

\* a server whose data drifts answers a request with 0..MaxRows rows
MaxRows == 3

\* ... and reports a total in 0..MaxDriftTotal
MaxDriftTotal == 5

\* The errors api_request raises to a fetcher: a fatal status, retries exhausted.
ApiErrors == {HTTPError(404), HTTPError(503)}

ValueError == [kind |-> "ValueError", code |-> 0, body |-> "none"]

AttributeError == [kind |-> "AttributeError", code |-> 0, body |-> "none"]

ExcOf(name) == IF name = "ValueError" THEN ValueError ELSE AttributeError

\* The n rows a server serves from offset o on: the rows o .. o+n-1.
RowsFrom(o, n) == [i \in 1..n |-> o + i - 1]

\* {"total": T, "limit": P}
PagObj(T, P) == [NoObj EXCEPT !.present = TRUE, !.total = T, !.limit = P]

\* {"totalCount": T, "pageSize": P}
MetaObj(T, P) == [NoObj EXCEPT !.present = TRUE, !.totalCount = T, !.pageSize = P]

\* The static server of total T and page size P, asked for offset o: the rows
\* o .. min(o+P, T)-1, with total and page size reported.
StaticBody(T, P, o) ==
    ObjectBody("list", RowsFrom(o, Max(0, Min(o + P, T) - o)), PagObj(T, P), NoObj)

\* What a drifting server may answer to the first request.
DriftFirstBodies ==
    {NullBody, ObjectBody("absent", <<>>, NoObj, NoObj)}
    \cup UNION {{ListBody(RowsFrom(0, n)), ObjectBody("list", RowsFrom(0, n), NoObj, NoObj)} :
                    n \in 0..MaxRows}
    \cup UNION {{ObjectBody("list", RowsFrom(0, n), PagObj(T, P), NoObj),
                 ObjectBody("list", RowsFrom(0, n), NoObj, MetaObj(T, P))} :
                    n \in 0..MaxRows, T \in 0..MaxDriftTotal, P \in 0..MaxPage}

\* What a drifting server may answer to a request at offset o.
DriftPageBodies(o) ==
    {NullBody} \cup {ObjectBody("list", RowsFrom(o, n), NoObj, NoObj) : n \in 0..MaxRows}

\* What an api_request call gave the fetcher: the body it returned ...
Answer(body) == [failed |-> FALSE, body |-> body, err |-> NoErr]

\* ... or the error it raised.
NoAnswer(e) == [failed |-> TRUE, body |-> NullBody, err |-> e]

PfIdle ==
    /\ pf_pc = "idle"
    /\ all_rows = <<>>
    /\ pag = NonePag
    /\ rows1 = 0
    /\ total = 0
    /\ page_size = 0
    /\ stride = 0
    /\ current_offset = 0
    /\ iteration = 0
    /\ pf_exc = NoErr
    /\ requests = <<>>
    /\ response = Answer(NullBody)
    /\ server = [static |-> FALSE, total |-> 0, pageSize |-> 0]

\* The state at the call of fetch_platform_dataset: `all_rows = []`, line 171.
PfStart ==
    /\ pf_pc = "first"
    /\ all_rows = <<>>
    /\ pag = NonePag
    /\ rows1 = 0
    /\ total = 0
    /\ page_size = 0
    /\ stride = 0
    /\ current_offset = 0
    /\ iteration = 0
    /\ pf_exc = NoErr
    /\ requests = <<>>
    /\ response = Answer(NullBody)
    /\ server = [static |-> FALSE, total |-> 0, pageSize |-> 0]

EffectivePageSizeReported(reported, n) ==
    IF reported # 0 THEN reported ELSE DefaultPageSize

\* lines 183-185: `page_size = pag["pageSize"] or 200`, then
\* `if rows: page_size = min(page_size, len(rows))`
EffectivePageSize(reported, n) ==
    LET ps == IF reported # 0 THEN reported ELSE DefaultPageSize
    IN  IF n > 0 THEN Min(ps, n) ELSE ps

ExtendNew(list, rows) ==
    list \o SelectSeq(rows, LAMBDA r : \A i \in 1..Len(list) : list[i] # r)

\* `all_rows.extend(rows)`, lines 177 and 198
Extend(list, rows) == list \o rows

StrideGap(ps) == ps + 1

StrideWholePage(ps) == Max(1, ps)

\* line 186: `stride = max(1, int(page_size * (1 - OVERLAP_RATIO)))`, OVERLAP_RATIO = 0.25
StrideOf(ps) == Max(1, (3 * ps) \div 4)

LoopCondOffByOne(offset, tot, iter) == offset < tot /\ iter <= MAX_ITERATIONS

\* line 191: `while current_offset < total and iteration < MAX_ITERATIONS`
LoopCond(offset, tot, iter) == offset < tot /\ iter < MAX_ITERATIONS

\* The while test at line 191, and `return all_rows` (line 209) when it fails.
PfLoopTest(offset, tot, iter) ==
    pf_pc' = IF LoopCond(offset, tot, iter) THEN "loop" ELSE "returned"

\* An exception leaves fetch_platform_dataset (lines 173-175 are in no try).
PfRaise(e) ==
    /\ pf_pc' = "raised"
    /\ pf_exc' = e
    /\ UNCHANGED <<all_rows, pag, rows1, total, page_size, stride, current_offset, iteration>>

\* lines 173-190 once api_request has returned `body`
PfFirstBody(body) ==
    LET rows == extract_rows(body)
        p    == extract_pagination(body)
    IN  IF rows.raised # "no" THEN PfRaise(ExcOf(rows.raised))
        ELSE IF p.raised # "no" THEN PfRaise(ExcOf(p.raised))
        ELSE /\ all_rows' = Extend(all_rows, rows.value)
             /\ pag' = p.value
             /\ rows1' = Len(rows.value)
             /\ pf_exc' = pf_exc
             /\ IF p.value.none \/ p.value.total = 0
                  THEN /\ pf_pc' = "returned"
                       /\ UNCHANGED <<total, page_size, stride, current_offset, iteration>>
                  ELSE LET ps == EffectivePageSize(p.value.pageSize, Len(rows.value))
                       IN  /\ total' = p.value.total
                           /\ page_size' = ps
                           /\ stride' = StrideOf(ps)
                           /\ current_offset' = ps
                           /\ iteration' = 1
                           /\ PfLoopTest(ps, p.value.total, 1)

\* The first request (line 173), answered by a static server.
PfFirstStatic ==
    /\ PfFrame
    /\ pf_pc = "first"
    /\ requests' = Append(requests, None)
    /\ \E T \in (0..MaxTotal) \cup {BigTotal}, P \in 0..MaxPage :
        /\ server' = [static |-> TRUE, total |-> T, pageSize |-> P]
        /\ response' = Answer(StaticBody(T, P, 0))
        /\ PfFirstBody(StaticBody(T, P, 0))

\* The first request (line 173), answered by a server whose data drifts.
PfFirstDrift ==
    /\ PfFrame
    /\ pf_pc = "first"
    /\ requests' = Append(requests, None)
    /\ \E body \in DriftFirstBodies :
        /\ server' = [static |-> FALSE,
                      total |-> extract_pagination(ObjectBody("list", <<>>, body.pagination, body.meta)).value.total,
                      pageSize |-> extract_pagination(ObjectBody("list", <<>>, body.pagination, body.meta)).value.pageSize]
        /\ response' = Answer(body)
        /\ PfFirstBody(body)

\* The first request (line 173): api_request raises.
PfFirstFails ==
    /\ PfFrame
    /\ pf_pc = "first"
    /\ requests' = Append(requests, None)
    /\ UNCHANGED server
    /\ \E e \in ApiErrors :
        /\ response' = NoAnswer(e)
        /\ PfRaise(e)

\* `break` (lines 197, 202, 207), then `return all_rows`
PfBreak ==
    /\ pf_pc' = "returned"
    /\ UNCHANGED <<current_offset, iteration>>

PfHardStop(e) ==
    /\ pf_pc' = "raised"
    /\ pf_exc' = e
    /\ UNCHANGED <<all_rows, current_offset, iteration>>

\* lines 205-207: `except Exception as e`, a message, `break`; all_rows is kept
PfSoftStop(e) ==
    /\ PfBreak
    /\ UNCHANGED <<all_rows, pf_exc>>

\* lines 195-204 once api_request has returned `page_body`
PfPageBody(page_body) ==
    LET page_rows == extract_rows(page_body)
    IN  IF page_rows.raised # "no"
          THEN PfSoftStop(ExcOf(page_rows.raised))
          ELSE /\ UNCHANGED pf_exc
               /\ IF page_rows.value = <<>>
                    THEN PfBreak /\ UNCHANGED all_rows
                    ELSE /\ all_rows' = Extend(all_rows, page_rows.value)
                         /\ IF Len(page_rows.value) < page_size
                              THEN PfBreak
                              ELSE /\ current_offset' = current_offset + stride
                                   /\ iteration' = iteration + 1
                                   /\ PfLoopTest(current_offset + stride, total,
                                                 iteration + 1)

\* One pass of the while loop (lines 192-207): the request at current_offset.
PfPage ==
    /\ PfFrame
    /\ pf_pc = "loop"
    /\ requests' = Append(requests, current_offset)
    /\ UNCHANGED <<pag, rows1, total, page_size, stride, server>>
    /\ \E page_body \in IF server.static
                           THEN {StaticBody(server.total, server.pageSize, current_offset)}
                           ELSE DriftPageBodies(current_offset) :
        /\ response' = Answer(page_body)
        /\ PfPageBody(page_body)

\* One pass of the while loop in which api_request raises (lines 205-207).
PfPageFails ==
    /\ PfFrame
    /\ pf_pc = "loop"
    /\ ~server.static
    /\ requests' = Append(requests, current_offset)
    /\ UNCHANGED <<pag, rows1, total, page_size, stride, server>>
    /\ \E e \in ApiErrors :
        /\ response' = NoAnswer(e)
        /\ PfSoftStop(e)

(***************************************************************************)
(* fetch_vulnerability_dataset: the partitioned fetcher                    *)
(***************************************************************************)

\* VULN_SEVERITIES, line 33
VULN_SEVERITIES == <<"CRITICAL", "HIGH", "MEDIUM", "LOW", "INFO">>

\* `for pass_num in range(1, 3)`, line 216: the last pass
LastPass == 2

\* ---- bounds of the vulnerability rows
\* a row's id is in 0..MaxVulnId; 0 stands for every falsy id (missing, null, "", 0)
MaxVulnId == 2

\* a pass response holds 0..MaxVulnRows rows
MaxVulnRows == 2

\* what the other fields of a row may hold
VulnVals == {"a", "b"}

VulnRows == [id : 0..MaxVulnId, val : VulnVals]

NoRow == [id |-> None, val |-> "none"]

VulnResponses == UNION {[1..n -> VulnRows] : n \in 0..MaxVulnRows}

\* What the server may answer to a pass: a body with a data list, or a body
\* extract_rows rejects.
VulnBodies == {NullBody} \cup {ObjectBody("list", r, NoObj, NoObj) : r \in VulnResponses}

Places(m, rid) == {i \in 1..Len(m) : m[i].id = rid}

MergeRowAnyId(m, row) ==
    IF Places(m, row.id) # {}
      THEN [i \in 1..Len(m) |-> IF m[i].id = row.id THEN row ELSE m[i]]
      ELSE Append(m, row)

MergeRowKeepFirst(m, row) ==
    IF ~Truthy(row.id) THEN m
    ELSE IF Places(m, row.id) # {} THEN m ELSE Append(m, row)

\* lines 221-223: `rid = row.get("id")`, `if rid: merged[rid] = row`. Assigning to
\* a key the dict holds keeps the key's place; a new key goes last.
MergeRow(m, row) ==
    IF ~Truthy(row.id) THEN m
    ELSE IF Places(m, row.id) # {}
           THEN [i \in 1..Len(m) |-> IF m[i].id = row.id THEN row ELSE m[i]]
           ELSE Append(m, row)

RECURSIVE MergeRows(_, _)
\* `for row in rows`, lines 220-223
MergeRows(m, rows) ==
    IF rows = <<>> THEN m ELSE MergeRows(MergeRow(m, Head(rows)), Tail(rows))

\* History: the latest row of `rows` that carries rid, or what was seen before.
LatestRow(seen, rows, rid) ==
    LET I == {i \in 1..Len(rows) : rows[i].id = rid}
    IN  IF I = {} THEN seen[rid]
        ELSE rows[CHOOSE i \in I : \A j \in I : j <= i]

\* What an api_request call of a pass gave: "rows" (a list with rows), "empty" (a
\* list without), "unreadable" (a body extract_rows rejects), or "failed" with
\* the error api_request raised; "none" before the first call.
Gave(what, e) == [gave |-> what, err |-> e]

VuIdle ==
    /\ vu_pc = "idle"
    /\ merged = <<>>
    /\ severity = 1
    /\ pass_num = 1
    /\ vu_result = <<>>
    /\ vu_exc = NoErr
    /\ last_seen = [rid \in 1..MaxVulnId |-> NoRow]
    /\ overwritten = FALSE
    /\ vu_count = 0
    /\ vu_last = Gave("none", NoErr)

\* The state at the call of fetch_vulnerability_dataset, at its first pass.
VuStart ==
    /\ vu_pc = "pass"
    /\ merged = <<>>
    /\ severity = 1
    /\ pass_num = 1
    /\ vu_result = <<>>
    /\ vu_exc = NoErr
    /\ last_seen = [rid \in 1..MaxVulnId |-> NoRow]
    /\ overwritten = FALSE
    /\ vu_count = 0
    /\ vu_last = Gave("none", NoErr)

VuReturnPartial(e) ==
    /\ vu_pc' = "returned"
    /\ vu_result' = merged
    /\ UNCHANGED <<merged, severity, pass_num, vu_exc, last_seen, overwritten>>

\* An exception leaves fetch_vulnerability_dataset (nothing in it is in a try).
VuRaise(e) ==
    /\ vu_pc' = "raised"
    /\ vu_exc' = e
    /\ UNCHANGED <<merged, severity, pass_num, vu_result, last_seen, overwritten>>

PassAgainAlways(rows, p) == p < LastPass

\* lines 216 and 224-225: another pass of the same severity follows unless
\* range(1, 3) is used up or `if not rows: break`
PassAgain(rows, p) == rows # <<>> /\ p < LastPass

\* The two loop headers (lines 215-216) after a pass that returned `rows`, and
\* `return list(merged.values())` (line 226) after the last severity.
VuAdvance(rows, m) ==
    LET nextSeverity == ~PassAgain(rows, pass_num)
    IN  IF ~nextSeverity
          THEN /\ pass_num' = pass_num + 1
               /\ vu_pc' = "pass"
               /\ UNCHANGED <<severity, vu_result>>
          ELSE IF severity < Len(VULN_SEVERITIES)
                 THEN /\ severity' = severity + 1
                      /\ pass_num' = 1
                      /\ vu_pc' = "pass"
                      /\ UNCHANGED vu_result
                 ELSE /\ vu_pc' = "returned"
                      /\ vu_result' = m
                      /\ UNCHANGED <<severity, pass_num>>

\* One pass (lines 217-225): api_request returns a body.
VuPass ==
    /\ VuFrame
    /\ vu_pc = "pass"
    /\ vu_count' = vu_count + 1
    /\ \E body \in VulnBodies :
        LET rows == extract_rows(body)
        IN  IF rows.raised # "no"
              THEN /\ VuRaise(ExcOf(rows.raised))
                   /\ vu_last' = Gave("unreadable", NoErr)
              ELSE /\ vu_last' = Gave(IF rows.value = <<>> THEN "empty" ELSE "rows", NoErr)
                   /\ merged' = MergeRows(merged, rows.value)
                   /\ last_seen' =
                        [rid \in 1..MaxVulnId |-> LatestRow(last_seen, rows.value, rid)]
                   /\ overwritten' =
                        (overwritten \/ \E rid \in 1..MaxVulnId :
                            /\ last_seen[rid] # NoRow
                            /\ LatestRow(last_seen, rows.value, rid) # last_seen[rid])
                   /\ vu_exc' = vu_exc
                   /\ VuAdvance(rows.value, MergeRows(merged, rows.value))

\* One pass in which api_request raises (line 218).
VuPassFails ==
    /\ VuFrame
    /\ vu_pc = "pass"
    /\ vu_count' = vu_count + 1
    /\ \E e \in ApiErrors :
        /\ vu_last' = Gave("failed", e)
        /\ VuRaise(e)

(***************************************************************************)
(* The dataset registry (build_datasets, apply_cli_filters) and main       *)
(***************************************************************************)

\* PLATFORM_DATASETS, lines 37-42: the names
PLATFORM_DATASETS == <<"Applications", "Components", "Resources", "Repositories">>

\* ASSETS, lines 60-64: the names
ASSETS ==
    <<"Digital One Flex (17040)", "Digital One LFI (12430)",
      "Consumer e-Banking Services (2466)">>

\* `name = f"vulns-{asset['name']}"`, line 273
VulnName(asset) ==
    CASE asset = "Digital One Flex (17040)" -> "vulns-Digital One Flex (17040)"
      [] asset = "Digital One LFI (12430)" -> "vulns-Digital One LFI (12430)"
      [] asset = "Consumer e-Banking Services (2466)"
            -> "vulns-Consumer e-Banking Services (2466)"
      [] OTHER -> "vulns-Custom"

\* ---- bounds of main's inputs
\* --datasets holds 0..MaxIncludeLen pieces (a name, a comma or a blank each)
MaxIncludeLen == 3

\* --exclude holds 0..MaxExcludeLen pieces
MaxExcludeLen == 1

\* `assets` (line 333): the list of the configuration file, or ASSETS
AssetLists == {ASSETS, <<"Custom">>}

\* The names the configuration's toggle map and the command line may hold.
ArgNames == {"Applications", "vulns-Digital One Flex (17040)"}

\* A command-line string is a sequence of pieces: a name, "," or " ".
ArgAtoms == ArgNames \cup {",", " "}

ArgStrings(n) == UNION {[1..k -> ArgAtoms] : k \in 0..n}

\* config.get("datasets"): given = FALSE when the configuration has none; else the
\* names it maps to a truthy value (on) and to a falsy one (off).
ToggleMaps ==
    {[given |-> g, on |-> on, off |-> off] :
        g \in BOOLEAN, on \in SUBSET ArgNames, off \in SUBSET ArgNames}

\* lines 267-269 and 274-276: `enabled = True`, then the toggle of the name if any
InitiallyEnabled(name, config_datasets) ==
    IF config_datasets.given /\ name \in config_datasets.on \cup config_datasets.off
      THEN name \in config_datasets.on
      ELSE TRUE

\* build_datasets, lines 263-285
build_datasets(assets, config_datasets) ==
    [i \in 1..Len(PLATFORM_DATASETS) |->
        [name |-> PLATFORM_DATASETS[i], category |-> "platform",
         enabled |-> InitiallyEnabled(PLATFORM_DATASETS[i], config_datasets)]]
    \o [i \in 1..Len(assets) |->
        [name |-> VulnName(assets[i]), category |-> "vulnerability",
         enabled |-> InitiallyEnabled(VulnName(assets[i]), config_datasets)]]

RECURSIVE Split(_)
\* str.split(","): the pieces between the commas, in order
Split(str) ==
    IF \A i \in 1..Len(str) : str[i] # "," THEN <<str>>
    ELSE LET c == CHOOSE i \in 1..Len(str) :
                    str[i] = "," /\ \A j \in 1..(i - 1) : str[j] # ","
         IN  <<SubSeq(str, 1, c - 1)>> \o Split(SubSeq(str, c + 1, Len(str)))

RECURSIVE Strip(_)
\* str.strip(): without the blanks at either end
Strip(str) ==
    IF str = <<>> THEN str
    ELSE IF Head(str) = " " THEN Strip(Tail(str))
    ELSE IF str[Len(str)] = " " THEN Strip(SubSeq(str, 1, Len(str) - 1))
    ELSE str

\* `{s.strip() for s in names.split(",") if s.strip()}`, lines 291 and 295
NameSet(names) ==
    {Strip(Split(names)[i]) : i \in 1..Len(Split(names))} \ {<<>>}

ApplyIncludeKeepingDisabled(ds, include_names, exclude_names) ==
    IF include_names # <<>>
      THEN [i \in 1..Len(ds) |->
              [ds[i] EXCEPT !.enabled = ds[i].enabled /\ <<ds[i].name>> \in NameSet(include_names)]]
      ELSE ds

\* apply_cli_filters, lines 288-297
apply_cli_filters(ds, include_names, exclude_names) ==
    IF include_names # <<>>
      THEN [i \in 1..Len(ds) |->
              [ds[i] EXCEPT !.enabled = <<ds[i].name>> \in NameSet(include_names)]]
      ELSE IF exclude_names # <<>>
             THEN [i \in 1..Len(ds) |->
                     [ds[i] EXCEPT !.enabled = <<ds[i].name>> \notin NameSet(exclude_names)]]
             ELSE ds

\* `[d for d in datasets if d["category"] == category and d["enabled"]]`, lines 342-343
Enabled(ds, category) ==
    SelectSeq(ds, LAMBDA d : d.category = category /\ d.enabled)

MainIdle ==
    /\ pc = "idle"
    /\ datasets = <<>>
    /\ built = <<>>
    /\ args_datasets = <<>>
    /\ args_exclude = <<>>
    /\ run_list = <<>>
    /\ next_ds = 1
    /\ attempted = <<>>
    /\ failed = <<>>
    /\ exit_status = None

\* The state at the call of main.
MainStart ==
    /\ pc = "start"
    /\ datasets = <<>>
    /\ built = <<>>
    /\ args_datasets = <<>>
    /\ args_exclude = <<>>
    /\ run_list = <<>>
    /\ next_ds = 1
    /\ attempted = <<>>
    /\ failed = <<>>
    /\ exit_status = None

\* lines 313-323: --check-env prints the configuration and returns
MainCheckEnv ==
    /\ MainFrame
    /\ pc = "start"
    /\ pc' = "exited"
    /\ exit_status' = 0
    /\ UNCHANGED <<datasets, built, args_datasets, args_exclude, run_list, next_ds,
                   attempted, failed>>

\* lines 324-326: API_BASE_URL or API_KEY is missing, sys.exit(1)
MainMissingCredentials ==
    /\ MainFrame
    /\ pc = "start"
    /\ \E base_url \in BOOLEAN, api_key \in BOOLEAN :
        /\ ~base_url \/ ~api_key
        /\ pc' = "exited"
        /\ exit_status' = 1
    /\ UNCHANGED <<datasets, built, args_datasets, args_exclude, run_list, next_ds,
                   attempted, failed>>

\* lines 332-335: with both credentials set, the configuration is loaded and
\* build_datasets called
MainBuild ==
    /\ MainFrame
    /\ pc = "start"
    /\ \E assets \in AssetLists, config_datasets \in ToggleMaps :
        /\ datasets' = build_datasets(assets, config_datasets)
        /\ built' = build_datasets(assets, config_datasets)
    /\ pc' = "built"
    /\ UNCHANGED <<args_datasets, args_exclude, run_list, next_ds, attempted, failed,
                   exit_status>>

\* The end of main once the loops have no dataset left (line 365): main returns
\* and the process exits with status 0.
MainLoopTest(list, n) ==
    IF n <= Len(list)
      THEN pc' = "run" /\ UNCHANGED exit_status
      ELSE pc' = "done" /\ exit_status' = 0

\* lines 336-343: apply_cli_filters, then platform_ds and vuln_ds
MainFilter ==
    /\ MainFrame
    /\ pc = "built"
    /\ \E include_names \in ArgStrings(MaxIncludeLen),
          exclude_names \in ArgStrings(MaxExcludeLen) :
        LET ds == apply_cli_filters(datasets, include_names, exclude_names)
            list == Enabled(ds, "platform") \o Enabled(ds, "vulnerability")
        IN  /\ args_datasets' = include_names
            /\ args_exclude' = exclude_names
            /\ datasets' = ds
            /\ run_list' = list
            /\ MainLoopTest(list, 1)
    /\ UNCHANGED <<built, next_ds, attempted, failed>>

\* The fetch of run_list[next_ds] returns its rows: they are written, and the
\* loop goes on (lines 347-353 and 357-363).
MainFetchReturns(category) ==
    /\ MainFrame
    /\ pc = "run"
    /\ run_list[next_ds].category = category
    /\ attempted' = Append(attempted, run_list[next_ds].name)
    /\ next_ds' = next_ds + 1
    /\ MainLoopTest(run_list, next_ds + 1)
    /\ UNCHANGED <<datasets, built, args_datasets, args_exclude, run_list, failed>>

\* The fetch of run_list[next_ds] raises. The calls at lines 347 and 357 are in
\* no try: the exception leaves main, and the interpreter ends the process with
\* a traceback and status 1.
MainFetchRaises(category) ==
    /\ MainFrame
    /\ pc = "run"
    /\ run_list[next_ds].category = category
    /\ attempted' = Append(attempted, run_list[next_ds].name)
    /\ failed' = Append(failed, run_list[next_ds].name)
    /\ pc' = "crashed"
    /\ exit_status' = 1
    /\ UNCHANGED <<datasets, built, args_datasets, args_exclude, run_list, next_ds>>

\* lines 345-353: one pass of `for ds in platform_ds`
MainFetchPlatformReturns == MainFetchReturns("platform")

MainFetchPlatformRaises == MainFetchRaises("platform")

\* lines 355-363: one pass of `for ds in vuln_ds`
MainFetchVulnReturns == MainFetchReturns("vulnerability")

MainFetchVulnRaises == MainFetchRaises("vulnerability")

\* No api_request call is modelled.
ApiIdle ==
    /\ api_pc = "idle"
    /\ attempt = 0
    /\ last_err = NoErr
    /\ sleeps = <<>>
    /\ api_result = NoErr
    /\ outcomes = <<>>

(***************************************************************************)
(* The specifications                                                      *)
(***************************************************************************)

InitApi == ApiStart /\ AdapterIdle /\ PfIdle /\ VuIdle /\ MainIdle

NextApi == ApiSuccess \/ ApiHttpError \/ ApiUrlError \/ ApiJsonError

SpecApi == InitApi /\ [][NextApi]_vars

InitAdapter ==
    /\ ad_body \in AdapterBodies
    /\ ad_rows = NotCalled
    /\ ad_pag = NotCalled
    /\ ApiIdle
    /\ PfIdle
    /\ VuIdle
    /\ MainIdle

NextAdapter == ExtractRows \/ ExtractPagination

SpecAdapter == InitAdapter /\ [][NextAdapter]_vars

InitPlatform == PfStart /\ ApiIdle /\ AdapterIdle /\ VuIdle /\ MainIdle

NextPlatform == PfFirstStatic \/ PfFirstDrift \/ PfFirstFails \/ PfPage \/ PfPageFails

SpecPlatform == InitPlatform /\ [][NextPlatform]_vars

InitVuln == VuStart /\ ApiIdle /\ AdapterIdle /\ PfIdle /\ MainIdle

NextVuln == VuPass \/ VuPassFails

SpecVuln == InitVuln /\ [][NextVuln]_vars

Init == MainStart /\ ApiIdle /\ AdapterIdle /\ PfIdle /\ VuIdle

Next ==
    \/ MainCheckEnv
    \/ MainMissingCredentials
    \/ MainBuild
    \/ MainFilter
    \/ MainFetchPlatformReturns
    \/ MainFetchPlatformRaises
    \/ MainFetchVulnReturns
    \/ MainFetchVulnRaises

Spec == Init /\ [][Next]_vars

(***************************************************************************)
(* Claims about api_request (checked under SpecApi)                        *)
(***************************************************************************)

IsRetryableHttp(o) == o.kind = "HTTPError" /\ o.code \in {429, 500, 502, 503, 504}

\* Every attempt before the last one of the log failed with a retryable status.
OnlyRetryableHttpBefore(n) == \A i \in 1..n : IsRetryableHttp(outcomes[i])

\* 0.5 * 2^k seconds for k = 0..n-1, in milliseconds
ExpectedSleeps(n) == [k \in 1..n |-> 500 * (2 ^ (k - 1))]

\* C5: when the first n attempts (0 <= n <= 4) of a call fail with a retryable
\* HTTP status, the call goes on to attempt n+1 having slept exactly
\* 0.5 * 2^k seconds for k = 0..n-1; when attempt n+1 succeeds the call returns
\* that attempt's body after exactly n+1 attempts and with no other sleep.
C5_RetryThenSuccess ==
    /\ \A n \in 0..4 :
        (Len(outcomes) = n /\ OnlyRetryableHttpBefore(n))
            => /\ api_pc = "try"
               /\ attempt = n
               /\ sleeps = ExpectedSleeps(n)
    /\ (api_pc = "returned" /\ OnlyRetryableHttpBefore(Len(outcomes) - 1))
            => /\ Len(outcomes) \in 1..5
               /\ api_result = outcomes[Len(outcomes)]
               /\ api_result.kind = "ok"
               /\ sleeps = ExpectedSleeps(Len(outcomes) - 1)

\* Four 503s, then a success: returned on the 5th attempt after 0.5, 1, 2, 4 s.
C5_Witness ==
    /\ api_pc = "returned"
    /\ Len(outcomes) = 5
    /\ \A i \in 1..4 : outcomes[i] = HTTPError(503)
    /\ api_result = Ok("body1")
    /\ sleeps = <<500, 1000, 2000, 4000>>

IsFatalHttp(o) == o.kind = "HTTPError" /\ o.code \notin {429, 500, 502, 503, 504}

\* C6: an attempt that fails with an HTTP status outside {429, 500, 502, 503,
\* 504} is the last attempt of the call, on whichever attempt it occurs: the
\* call has raised that error, and it did not sleep after that attempt.
C6_FatalHttpRaisesAtOnce ==
    \A i \in 1..Len(outcomes) :
        IsFatalHttp(outcomes[i])
            => /\ i = Len(outcomes)
               /\ api_pc = "raised"
               /\ api_result = outcomes[i]
               /\ Len(sleeps) = i - 1

\* A 404 on the second attempt, after one retried 503.
C6_Witness ==
    /\ outcomes = <<HTTPError(503), HTTPError(404)>>
    /\ api_pc = "raised"
    /\ api_result = HTTPError(404)
    /\ sleeps = <<500>>

IsRetryableOutcome(o) == IsRetryableHttp(o) \/ o.kind = "URLError"

\* C7: a call makes at most 5 attempts, and when all 5 fail with retryable
\* errors it raises the error of the 5th attempt.
C7_FiveAttemptsThenLastError ==
    /\ Len(outcomes) <= 5
    /\ (Len(outcomes) = 5 /\ \A i \in 1..5 : IsRetryableOutcome(outcomes[i]))
            => /\ api_pc = "raised"
               /\ api_result = outcomes[5]

\* Five retryable failures, the last one differing from the first.
C7_Witness ==
    /\ api_pc = "raised"
    /\ Len(outcomes) = 5
    /\ \A i \in 1..5 : IsRetryableOutcome(outcomes[i])
    /\ outcomes[1] = HTTPError(503)
    /\ outcomes[5] = HTTPError(429)
    /\ api_result = HTTPError(429)

\* C13: backoff sleeps happen only between attempts: a call that is over slept
\* once less than it made attempts, and a call whose 5 attempts all failed with
\* retryable errors slept exactly 4 times (0.5 s, 1 s, 2 s, 4 s) before it raised.
C13_FourSleepsOnExhaustion ==
    /\ api_pc \in {"returned", "raised"} => Len(sleeps) = Len(outcomes) - 1
    /\ (/\ api_pc = "raised"
        /\ Len(outcomes) = 5
        /\ \A i \in 1..5 : IsRetryableOutcome(outcomes[i]))
            => sleeps = <<500, 1000, 2000, 4000>>

\* Attempt i failed and was retried like a retryable HTTP status: the call slept
\* 0.5 * 2^(i-1) seconds after it, and then went on to attempt i+1, or raised
\* the error of attempt 5 when i = 5.
RetriedWithBackoff(i) ==
    /\ i <= 5
    /\ Len(sleeps) >= i
    /\ sleeps[i] = 500 * (2 ^ (i - 1))
    /\ i < 5 => (Len(outcomes) > i \/ api_pc = "try")
    /\ i = 5 => (api_pc = "raised" /\ api_result = outcomes[5])

\* C14: a TLS/certificate failure is the last attempt of the call, which raised
\* it without a sleep after it; every other connection failure is retried with
\* the backoff and the 5-attempt ceiling of a retryable HTTP status.
C14_TlsFatalOtherConnectionRetried ==
    \A i \in 1..Len(outcomes) :
        /\ outcomes[i].kind = "SSLError"
            => /\ i = Len(outcomes)
               /\ api_pc = "raised"
               /\ api_result = outcomes[i]
               /\ Len(sleeps) = i - 1
        /\ outcomes[i].kind = "URLError" => RetriedWithBackoff(i)
        /\ IsRetryableHttp(outcomes[i]) => RetriedWithBackoff(i)

\* Two connection failures, each retried after 0.5 s and 1 s, then a certificate
\* failure on the third attempt, raised at once.
C14_Witness ==
    /\ outcomes = <<ConnError, ConnError, SslError>>
    /\ api_pc = "raised"
    /\ api_result = SslError
    /\ sleeps = <<500, 1000>>

(***************************************************************************)
(* Claims about the adapter (checked under SpecAdapter)                    *)
(***************************************************************************)

\* The body has no pagination object and no meta object.
NoMetadata(body) == ~body.pagination.present /\ ~body.meta.present

\* C8: for every body that extract_rows accepts (an object with a data list, a
\* bare list, empty or not) and that has no pagination or meta object,
\* extract_pagination returns None and does not raise.
C8_AbsentMetadataIsNone ==
    (/\ ad_pag # NotCalled
     /\ ad_rows.raised = "no"
     /\ NoMetadata(ad_body))
        => ad_pag = Returned(NonePag)

(***************************************************************************)
(* Claims about fetch_platform_dataset (checked under SpecPlatform)        *)
(***************************************************************************)

\* C2: fetch_platform_dataset makes at most MAX_ITERATIONS (2000) api_request
\* calls, the first page included, whatever the server reports and answers:
\* whenever it is about to make another call it has made fewer than 2000, and
\* otherwise it has returned or raised.
C2_AtMostMaxIterationsRequests ==
    /\ Len(requests) <= 2000
    /\ pf_pc \in {"first", "loop"} => Len(requests) < 2000
    /\ pf_pc \in {"first", "loop", "returned", "raised"}

\* The cap ended the loop: 2000 requests made, and rows still outstanding.
C2_Witness ==
    /\ pf_pc = "returned"
    /\ Len(requests) = 2000
    /\ current_offset < total

\* The loop ended on the iteration cap, not on the offset or a short page.
Capped == iteration >= 2000 /\ current_offset < total

\* C3: against a static server of total T and page size P >= 1, and unless the
\* iteration cap ended the loop, the rows returned are at least T, hold every row
\* 0 .. T-1, and begin with page 1 (the rows 0 .. min(P, T)-1) in order.
C3_StaticServerComplete ==
    (/\ pf_pc = "returned"
     /\ server.static
     /\ server.pageSize >= 1
     /\ ~Capped)
        => LET T == server.total
               P == server.pageSize
           IN  /\ Len(all_rows) >= T
               /\ \A r \in 0..(T - 1) : \E i \in 1..Len(all_rows) : all_rows[i] = r
               /\ SubSeq(all_rows, 1, Min(P, T)) = [i \in 1..Min(P, T) |-> i - 1]

\* total = 10, pageSize = 4: the pages at offsets 0, 4 and 7, 11 rows in all.
C3_Witness ==
    /\ pf_pc = "returned"
    /\ server = [static |-> TRUE, total |-> 10, pageSize |-> 4]
    /\ requests = <<None, 4, 7>>
    /\ all_rows = <<0, 1, 2, 3, 4, 5, 6, 7, 7, 8, 9>>

\* The rows a request added to the result: the rows of its response, or none
\* when the request failed or its response holds no row list.
FetchedRows(r) ==
    IF r.failed \/ extract_rows(r.body).raised # "no"
      THEN <<>>
      ELSE extract_rows(r.body).value

\* C11: the result is the concatenation, in request order, of the rows of every
\* page fetched: it is empty before the first request, and each request adds the
\* rows of its response at the end, as they came, leaving the rows before alone;
\* nothing is reordered, dropped or deduplicated.
C11_RowsInFetchOrder ==
    /\ [](requests = <<>> => all_rows = <<>>)
    /\ [][pf_pc' # "raised" => all_rows' = all_rows \o FetchedRows(response')]_vars

\* total = 9, pageSize = 4: the pages at offsets 0, 4 and 7; row 7 is served by
\* the last two and is in the result twice.
C11_Witness ==
    /\ pf_pc = "returned"
    /\ server = [static |-> TRUE, total |-> 9, pageSize |-> 4]
    /\ requests = <<None, 4, 7>>
    /\ all_rows = <<0, 1, 2, 3, 4, 5, 6, 7, 7, 8>>

\* The request failed: api_request raised, or extract_rows found no row list.
PageFailed(r) == r.failed \/ extract_rows(r.body).raised # "no"

\* C12: a failure of the first request is raised to the caller; a failure of any
\* later request makes the function return, without raising, the rows of the
\* pages before, and no request follows it.
C12_LaterPageFailureIsSoftStop ==
    /\ []((Len(requests) = 1 /\ PageFailed(response))
            => pf_pc = "raised" /\ pf_exc # NoErr)
    /\ []((Len(requests) > 1 /\ PageFailed(response))
            => pf_pc = "returned" /\ pf_exc = NoErr)
    /\ [][(Len(requests') > 1 /\ PageFailed(response')) => all_rows' = all_rows]_vars
    /\ [][pf_pc \notin {"returned", "raised"}]_vars

\* Two pages of two rows, then the third request fails with retries exhausted:
\* the four rows are returned.
C12_Witness ==
    /\ pf_pc = "returned"
    /\ requests = <<None, 2, 3>>
    /\ response = NoAnswer(HTTPError(503))
    /\ all_rows = <<0, 1, 2, 3>>
    /\ pf_exc = NoErr

\* C15: when the first response holds rows and no pagination metadata, the
\* function has made its only request and returned exactly these rows.
C15_NoMetadataSingleRequest ==
    (/\ Len(requests) = 1
     /\ ~PageFailed(response)
     /\ NoMetadata(response.body))
        => /\ pf_pc = "returned"
           /\ all_rows = FetchedRows(response)

\* The first response carried pagination metadata with total > 0: the function
\* went on past the early return of line 180.
Paginating == pf_pc \in {"loop", "returned"} /\ ~pag.none /\ pag.total > 0

\* C18 as stated: with metadata and total > 0, the effective page size is
\* min(reported pageSize, rows received on page 1), for every reported pageSize
\* and every page-1 row count.
C18_EffectivePageSizeIsMin ==
    Paginating => page_size = Min(pag.pageSize, rows1)

\* C18 as amended: the effective page size, which is also the offset of the
\* first follow-up request, is min(reported pageSize, rows received on page 1)
\* when a pageSize of at least 1 is reported and page 1 holds at least one row;
\* 200 stands in for a pageSize that is missing or 0, and with an empty page 1
\* the reported pageSize (or 200) is used as it is.
C18_EffectivePageSizeAmended ==
    Paginating =>
        LET nominal == IF pag.pageSize >= 1 THEN pag.pageSize ELSE 200
        IN  /\ page_size = IF rows1 >= 1 THEN Min(nominal, rows1) ELSE nominal
            /\ Len(requests) >= 2 => requests[2] = page_size

\* The server reports pageSize = 5 and delivers 3 rows on page 1: the effective
\* page size is 3, and the second request is at offset 3.
C18_Witness ==
    /\ Paginating
    /\ pag.pageSize = 5
    /\ rows1 = 3
    /\ page_size = 3
    /\ requests = <<None, 3>>

\* floor(0.75 * n)
ThreeQuarters(n) == CHOOSE k \in 0..n : 4 * k <= 3 * n /\ 3 * n < 4 * (k + 1)

\* C19: the stride is max(1, floor(0.75 * effective page size)); the first
\* follow-up request is at offset = effective page size and each later one at the
\* offset before plus the stride; a follow-up request is made only with an offset
\* below total, and only when the follow-up page before it was neither empty nor
\* shorter than the effective page size.
C19_StrideAndOffsets ==
    /\ [](Paginating =>
            /\ stride = Max(1, ThreeQuarters(page_size))
            /\ Len(requests) >= 2 => requests[2] = page_size
            /\ \A i \in 3..Len(requests) : requests[i] = requests[i - 1] + stride
            /\ \A i \in 2..Len(requests) : requests[i] < total)
    /\ [][(Len(requests) >= 2 /\ Len(requests') > Len(requests))
            => /\ FetchedRows(response) # <<>>
               /\ Len(FetchedRows(response)) >= page_size]_vars

\* total = 8, pageSize = 4: stride 3, the follow-up requests at offsets 4 and 7,
\* the second one after a full page at offset 4.
C19_Witness ==
    /\ pf_pc = "returned"
    /\ server = [static |-> TRUE, total |-> 8, pageSize |-> 4]
    /\ page_size = 4
    /\ stride = 3
    /\ requests = <<None, 4, 7>>

\* C20: with an effective page size of at least 2, every request after the first
\* starts inside the page requested just before it: its offset is below the
\* offset of the request before (0 for the first request) plus the effective
\* page size.
C20_EveryFollowUpOverlaps ==
    (Paginating /\ page_size >= 2)
        => \A i \in 2..Len(requests) :
              requests[i] < (IF i = 2 THEN 0 ELSE requests[i - 1]) + page_size

(***************************************************************************)
(* Claims about fetch_vulnerability_dataset (checked under SpecVuln)       *)
(***************************************************************************)

\* No two rows of the list carry the same id.
OneRowPerId(rows) ==
    \A i, j \in 1..Len(rows) : rows[i].id = rows[j].id => i = j

\* Every row of the list is the latest row received that carried its id.
LastWriteWins(rows) ==
    \A i \in 1..Len(rows) : rows[i] = last_seen[rows[i].id]

\* C4: whatever the passes answered, merged, and the list returned from it, hold
\* at most one row per id, and each row held is the one of the latest response
\* (and the latest place in it) that carried its id.
C4_OneRowPerIdLastWriteWins ==
    /\ OneRowPerId(merged)
    /\ LastWriteWins(merged)
    /\ vu_pc = "returned" => OneRowPerId(vu_result) /\ LastWriteWins(vu_result)

\* Id 1 is the only id received. A later response carried it with another row
\* than an earlier one, and the list returned holds the later row alone.
C4_Witness ==
    /\ vu_pc = "returned"
    /\ overwritten
    /\ vu_result = <<[id |-> 1, val |-> "b"]>>
    /\ last_seen[1] = [id |-> 1, val |-> "b"]

\* The pass that just ended was the first of its severity and returned rows.
FirstPassGotRows == pass_num = 1 /\ vu_last'.gave = "rows"

\* C16: the first request is for CRITICAL; after a request that did not fail the
\* next request is for the same severity, as its second pass, if and only if the
\* request was the first pass and returned at least one row, and otherwise for
\* the next severity of CRITICAL, HIGH, MEDIUM, LOW, INFO, or the call returns
\* when the severity was INFO; a call that returns has made 5 to 10 requests.
C16_SeverityOrderTwoPasses ==
    /\ [](/\ VULN_SEVERITIES = <<"CRITICAL", "HIGH", "MEDIUM", "LOW", "INFO">>
          /\ severity \in 1..5
          /\ pass_num \in 1..2
          /\ vu_count = 0 => (vu_pc = "pass" /\ severity = 1 /\ pass_num = 1)
          /\ vu_pc = "returned" => vu_count \in 5..10)
    /\ [][vu_last'.gave \in {"rows", "empty"} => vu_pc' \in {"pass", "returned"}]_vars
    /\ [][vu_pc' = "pass" =>
            IF FirstPassGotRows
              THEN severity' = severity /\ pass_num' = 2
              ELSE severity' = severity + 1 /\ pass_num' = 1]_vars
    /\ [][vu_pc' = "returned" => (severity = 5 /\ ~FirstPassGotRows)]_vars

\* Every severity returned rows on its first pass: 10 requests, then the return.
C16_Witness ==
    /\ vu_pc = "returned"
    /\ vu_count = 10
    /\ severity = 5
    /\ pass_num = 2

\* C17: when the request of a pass fails, the function has raised that error
\* and returned no result, whatever earlier passes had merged, and it makes no
\* request after it.
C17_PassFailureRaisesAtOnce ==
    /\ [](vu_last.gave = "failed"
            => /\ vu_pc = "raised"
               /\ vu_exc = vu_last.err
               /\ vu_exc # NoErr
               /\ vu_result = <<>>)
    /\ [][vu_pc # "raised"]_vars

\* The third request fails with retries exhausted after two passes had merged
\* rows: the error is raised, the merged rows are not returned.
C17_Witness ==
    /\ vu_pc = "raised"
    /\ vu_count = 3
    /\ vu_last = Gave("failed", HTTPError(503))
    /\ vu_exc = HTTPError(503)
    /\ Len(merged) = 2
    /\ vu_result = <<>>

\* The ids of the rows of a list.
IdsOf(rows) == {rows[i].id : i \in 1..Len(rows)}

\* The non-empty ids some pass response has carried so far.
IdsReceived == {rid \in 1..MaxVulnId : last_seen[rid] # NoRow}

\* C21: the ids of merged, and of the list returned from it, are exactly the
\* non-empty ids that rows of the pass responses carried; a row whose id is
\* missing, null, empty or zero never gets in.
C21_ResultIdsAreTruthyIdsReceived ==
    /\ IdsOf(merged) = IdsReceived
    /\ \A i \in 1..Len(merged) : Truthy(merged[i].id)
    /\ vu_pc = "returned"
        => /\ IdsOf(vu_result) = IdsReceived
           /\ \A i \in 1..Len(vu_result) : Truthy(vu_result[i].id)

\* Ten requests, so both passes of every severity returned rows, and no
\* non-empty id among them: every row received carried an empty id, and the
\* result holds no row.
C21_Witness ==
    /\ vu_pc = "returned"
    /\ vu_count = 10
    /\ vu_last.gave = "rows"
    /\ IdsReceived = {}
    /\ vu_result = <<>>

(***************************************************************************)
(* Claims about the registry and main (checked under Spec)                 *)
(***************************************************************************)

\* main has ended: it returned, called sys.exit, or an exception left it.
Ended == pc \in {"done", "exited", "crashed"}

EnabledNames == {datasets[i].name : i \in {j \in 1..Len(datasets) : datasets[j].enabled}}

AttemptedNames == {attempted[i] : i \in 1..Len(attempted)}

\* C1: in every run that got to the run loop, every enabled dataset is
\* attempted, whatever the outcome of the datasets before it.
C1_EveryEnabledDatasetAttempted ==
    pc \in {"done", "crashed"} => EnabledNames \subseteq AttemptedNames

\* C10: the process exits non-zero only when API_BASE_URL or API_KEY is missing;
\* a run in which the fetch of some dataset fails ends with exit status zero.
C10_NonZeroOnlyForConfiguration ==
    /\ (Ended /\ exit_status # 0) => pc = "exited"
    /\ (Ended /\ failed # <<>>) => exit_status = 0

\* The name is an entry of the comma-separated list, blanks around it aside:
\* some stretch of the string between two commas (or the ends) holds the name
\* once and otherwise blanks only.
InList(name, str) ==
    \E a \in 1..Len(str), b \in 1..Len(str) :
        /\ a <= b
        /\ a = 1 \/ str[a - 1] = ","
        /\ b = Len(str) \/ str[b + 1] = ","
        /\ \E k \in a..b :
            /\ str[k] = name
            /\ \A j \in (a..b) \ {k} : str[j] = " "

\* C9: after apply_cli_filters with a non-empty --datasets, a dataset is enabled
\* if and only if its name is in the include list, whatever build_datasets made
\* of the toggle map and whatever --exclude holds.
C9_IncludeListIsWhitelist ==
    (pc \in {"run", "done", "crashed"} /\ args_datasets # <<>>)
        => \A i \in 1..Len(datasets) :
              datasets[i].enabled <=> InList(datasets[i].name, args_datasets)

\* --datasets " Applications" --exclude "Applications", with Applications toggled
\* off by the configuration and the vulnerability datasets left on: afterwards
\* Applications alone is enabled.
C9_Witness ==
    /\ pc \in {"run", "done", "crashed"}
    /\ args_datasets = <<" ", "Applications">>
    /\ args_exclude = <<"Applications">>
    /\ ~built[1].enabled
    /\ built[2].enabled
    /\ built[5].enabled
    /\ datasets[1].enabled
    /\ EnabledNames = {"Applications"}

=============================================================================
